---- MODULE Spec2Model ----
(***************************************************************************)
(* Textosaurus: the URL hover detector and the click handler of            *)
(* TextEditor, the editor's save/close protocol, and the find-results      *)
(* tree.  Three specifications share the module:                           *)
(*   Spec      mouse-move events and indicator-click notifications over an *)
(*             unchanged document (texteditor.cpp 31-54, 110-172);         *)
(*   SpecSave  edit, load, save, save-as and close of one editor           *)
(*             (texteditor.cpp 66-89, 211-222, 321-345, 426-499);          *)
(*   SpecFind  FindResultsModel::clear and addResults                      *)
(*             (findresultsmodel.h 28-33).                                 *)
(* Offsets are zero-based as in the program; TLA+ sequences are one-based, *)
(* so the character at offset i of text is text[i + 1].                    *)
(***************************************************************************)
EXTENDS Integers, Sequences, FiniteSets, TLC

VARIABLES
  \* ---- the hover detector (Spec) ----
  text,              \* the document's characters; never changed by Spec
  m_indicatorStart,  \* TextEditor::m_indicatorStart
  m_indicatorStop,   \* TextEditor::m_indicatorStop
  indicator,         \* offsets that carry indicator 0 in the editing widget
  lastEvent,         \* the handler that ran last: [kind, code, modifiers] with
                     \* kind "none", "move" or "notify"
  lastPos,           \* text_pos of the last handler, when it was a mouse move
  stateBefore,       \* <<start, stop, indicator>> when the last handler started
  clearCalls,        \* indicatorClearRange calls made by the last handler
  charAtArgs,        \* offsets the last handler passed to charAt
  searchCalls,       \* QRegularExpression::match calls made by the last handler
  browserCalls,      \* arguments of openUrlInExternalBrowser, last handler
  \* ---- save and close (SpecSave) ----
  m_filePath,        \* TextEditor::m_filePath ("" for a new document)
  m_encoding,        \* TextEditor::m_encoding
  modified,          \* ScintillaEdit::modify(): changes since the save point
  closed,            \* the close event was accepted
  lastCall,          \* what the last SpecSave action called, with its inputs
                     \* and the editor's state before the call
  lastOk,            \* the *ok the last call reported
  emitted,           \* savedToFile signals emitted by the last call
  windowsBuild,      \* the build's native separator is "\" (fixed per run)
  \* ---- the find-results tree (SpecFind) ----
  m_rootItem,        \* the children of the root: per-editor groups
  passed,            \* editors passed to addResults since the last clear
  given              \* per editor, the matches passed since the last clear

hoverVars == <<text, m_indicatorStart, m_indicatorStop, indicator, lastEvent,
               lastPos, stateBefore, clearCalls, charAtArgs,
               searchCalls, browserCalls>>
saveVars == <<m_filePath, m_encoding, modified, closed, lastCall, lastOk, emitted,
              windowsBuild>>
findVars == <<m_rootItem, passed, given>>
vars == <<hoverVars, saveVars, findVars>>

----------------------------------------------------------------------------
(* Bounds of the model *)

\* A document is the concatenation of 1..MaxWords words of Words.
MaxWords == 3

----------------------------------------------------------------------------
(* Characters *)

Letters ==
  {"A","B","C","D","E","F","G","H","I","J","K","L","M","N","O","P","Q","R","S",
   "T","U","V","W","X","Y","Z",
   "a","b","c","d","e","f","g","h","i","j","k","l","m","n","o","p","q","r","s",
   "t","u","v","w","x","y","z"}
Digits == {"0","1","2","3","4","5","6","7","8","9"}

\* The character ` (written as a name: the lexer does not take it in a string).
BackQuote == "backquote"

\* What charAt answers for an offset outside the document (SCI_GETCHARAT
\* returns 0 there).
NUL == "NUL"

\* The character class of the pattern, texteditor.cpp 152-153.
RegexClass ==
  Letters \cup Digits \cup
  {"-", ".", "_", "~", ":", "/", "?", "#", "@", "!", "$", "&", "'", "*", "+",
   ",", ";", "=", BackQuote}

\* The characters TextFactory::isCharUrlValid accepts: ASCII letters, digits
\* and - . _ ~ : / ? # @ ! $ & ' * + , ; = `
UrlValidChars ==
  Letters \cup Digits \cup
  {"-", ".", "_", "~", ":", "/", "?", "#", "@", "!", "$", "&", "'", "*", "+",
   ",", ";", "=", BackQuote}

isCharUrlValid(chr) == chr \in UrlValidChars

\* The scheme alternatives of the pattern once "s?" is expanded.
Schemes ==
  { <<"h","t","t","p","s",":","/","/">>,
    <<"h","t","t","p",":","/","/">>,
    <<"f","t","p",":","/","/">>,
    <<"m","a","i","l","t","o",":">> }

\* The words documents are built from: a scheme with nothing after it, a URL
\* of each other scheme, a URL-safe letter, and a space (not URL-safe).
Words ==
  << <<"h","t","t","p",":","/","/">>,
     <<"h","t","t","p","s",":","/","/","a">>,
     <<"f","t","p",":","/","/","a">>,
     <<"m","a","i","l","t","o",":","a">>,
     <<"a">>,
     <<" ">> >>

RECURSIVE Concat(_)
Concat(ws) == IF ws = <<>> THEN <<>> ELSE Words[Head(ws)] \o Concat(Tail(ws))

Documents ==
  { Concat(ws) : ws \in UNION { [1..n -> 1..Len(Words)] : n \in 1..MaxWords } }

----------------------------------------------------------------------------
(* The editing widget, as TextEditor uses it *)

\* positionFromPointClose answers -1 when the point is close to no character.
INVALID_POSITION == -1

\* Scintilla's notification code and modifier bits (texteditor.cpp 38).
SCN_INDICATORCLICK == 2023
SCMOD_SHIFT == 1
SCMOD_CTRL == 2

\* A notification code other than SCN_INDICATORCLICK (SCN_INDICATORRELEASE).
OtherCode == SCN_INDICATORCLICK + 1

length == Len(text)

\* charAt(pos): the character at pos, 0 outside the document.
charAt(pos) == IF pos >= 0 /\ pos < length THEN text[pos + 1] ELSE NUL

\* textRange(start, end): the characters of [start, end); an inverted range
\* is read as the empty range at end (ScintillaEdit::get_text_range).  A
\* range that is not inside the document (the sentinel -1, -1) yields no
\* characters here.
textRange(start, end) ==
  LET from == IF start > end THEN end ELSE start
  IN  IF from < 0 \/ end > length THEN <<>> ELSE SubSeq(text, from + 1, end)

\* indicatorClearRange(start, lengthClear) and indicatorFillRange(start,
\* lengthFill) act on [start, start + length); the second argument is a
\* length (line 162 passes m_indicatorStop - m_indicatorStart).  The widget
\* changes nothing when the length is not positive or the range ends past the
\* document (RunStyles::FillRange).
RangeAccepted(start, len) == start >= 0 /\ len > 0 /\ start + len <= length

indicatorClearRange(ind, start, lengthClear) ==
  IF RangeAccepted(start, lengthClear)
  THEN ind \ (start .. (start + lengthClear - 1))
  ELSE ind

indicatorFillRange(ind, start, lengthFill) ==
  IF RangeAccepted(start, lengthFill)
  THEN ind \cup (start .. (start + lengthFill - 1))
  ELSE ind

----------------------------------------------------------------------------
(* The URL pattern, searched in a QByteArray of URL-safe characters *)

\* s is found in r at offset i.
PrefixAt(r, i, s) ==
  /\ i + Len(s) <= Len(r)
  /\ SubSeq(r, i + 1, i + Len(s)) = s

\* The number of characters of the class from offset j on: the greedy "+".
RECURSIVE ClassRun(_, _)
ClassRun(r, j) ==
  IF j < Len(r) /\ r[j + 1] \in RegexClass THEN 1 + ClassRun(r, j + 1) ELSE 0

\* The scheme the pattern matches at offset i: at most one, as no scheme is
\* a prefix of another's text at the same offset, and it needs one character
\* of the class after it.
SchemesAt(r, i) ==
  { s \in Schemes : PrefixAt(r, i, s) /\ ClassRun(r, i + Len(s)) >= 1 }

MatchOffsets(r) == { i \in 0 .. (Len(r) - 1) : SchemesAt(r, i) # {} }

\* QRegularExpression::match(r): a search, which reports the leftmost match;
\* capturedStart and capturedEnd are -1 when there is none.
match(r) ==
  LET offsets == MatchOffsets(r)
  IN  IF offsets = {}
      THEN [hasMatch |-> FALSE, capturedStart |-> -1, capturedEnd |-> -1]
      ELSE LET i == CHOOSE x \in offsets : \A y \in offsets : x <= y
               s == CHOOSE x \in SchemesAt(r, i) : TRUE
           IN  [hasMatch |-> TRUE, capturedStart |-> i,
                capturedEnd |-> i + Len(s) + ClassRun(r, i + Len(s))]

----------------------------------------------------------------------------
(* TextEditor::mouseMoveEvent, texteditor.cpp 110-172 *)

\* Line 114.
OutsidePrevious(text_pos) ==
  text_pos > m_indicatorStart \/ text_pos < m_indicatorStop

\* Lines 127-136: the offset at which the left loop breaks.
RECURSIVE LeftBreak(_)
LeftBreak(start) ==
  IF ~isCharUrlValid(charAt(start)) THEN start ELSE LeftBreak(start - 1)

\* Lines 140-149: the offset at which the right loop breaks.
RECURSIVE RightBreak(_)
RightBreak(end) ==
  IF ~isCharUrlValid(charAt(end)) THEN end ELSE RightBreak(end + 1)

\* Lines 123-138.
WordStart(text_pos) == LeftBreak(text_pos) + 1

\* Lines 124, 140-149.
WordEnd(text_pos) == RightBreak(text_pos)

\* The offsets both loops passed to charAt.
ScanArgs(text_pos) ==
  (LeftBreak(text_pos) .. text_pos) \cup (text_pos .. RightBreak(text_pos))

\* Lines 151-167: the new m_indicatorStart and m_indicatorStop, and the
\* indicator after the fill (when the pattern matches).
NewSpan(start, end, ind) ==
  LET ranged_text == textRange(start, end)
      m == match(ranged_text)
  IN  IF m.hasMatch
      THEN LET newStart == start + m.capturedStart
               newStop == end - Len(ranged_text) + m.capturedEnd
           IN  [start |-> newStart, stop |-> newStop,
                indicator |-> indicatorFillRange(ind, newStart, newStop - newStart)]
      ELSE [start |-> start, stop |-> end, indicator |-> ind]

MouseMove(text_pos) ==
  LET cleared == indicatorClearRange(indicator, m_indicatorStart, m_indicatorStop)
      span == NewSpan(WordStart(text_pos), WordEnd(text_pos), cleared)
  IN  /\ lastEvent' = [kind |-> "move", code |-> 0, modifiers |-> 0]
      /\ lastPos' = text_pos
      /\ stateBefore' = <<m_indicatorStart, m_indicatorStop, indicator>>
      /\ browserCalls' = <<>>
      /\ IF OutsidePrevious(text_pos)
         THEN /\ clearCalls' = 1
              /\ IF text_pos >= 0
                 THEN /\ charAtArgs' = ScanArgs(text_pos)
                      /\ searchCalls' = 1
                      /\ m_indicatorStart' = span.start
                      /\ m_indicatorStop' = span.stop
                      /\ indicator' = span.indicator
                 ELSE /\ charAtArgs' = {}
                      /\ searchCalls' = 0
                      /\ m_indicatorStart' = -1
                      /\ m_indicatorStop' = -1
                      /\ indicator' = cleared
         ELSE /\ clearCalls' = 0
              /\ charAtArgs' = {}
              /\ searchCalls' = 0
              /\ UNCHANGED <<m_indicatorStart, m_indicatorStop, indicator>>
      /\ UNCHANGED <<text, saveVars, findVars>>

\* The mouse is over a character of the document.
MouseMoveOverText == \E text_pos \in 0 .. (length - 1) : MouseMove(text_pos)

\* The mouse is over no character.
MouseMoveOffText == MouseMove(INVALID_POSITION)

----------------------------------------------------------------------------
(* The notify handler, texteditor.cpp 37-41 *)

\* The modifier masks of the events: none, Shift, Ctrl, Ctrl+Shift.
Modifiers == {0, SCMOD_SHIFT, SCMOD_CTRL, SCMOD_CTRL + SCMOD_SHIFT}

\* Line 38.
OpensBrowser(code, modifiers) ==
  code = SCN_INDICATORCLICK /\ modifiers = SCMOD_CTRL

Notify(code, modifiers) ==
  /\ lastEvent' = [kind |-> "notify", code |-> code, modifiers |-> modifiers]
  /\ stateBefore' = <<m_indicatorStart, m_indicatorStop, indicator>>
  /\ browserCalls' =
       IF OpensBrowser(code, modifiers)
       THEN << textRange(m_indicatorStart, m_indicatorStop) >>
       ELSE <<>>
  /\ clearCalls' = 0
  /\ charAtArgs' = {}
  /\ searchCalls' = 0
  /\ lastPos' = INVALID_POSITION
  /\ UNCHANGED <<text, m_indicatorStart, m_indicatorStop, indicator,
                 saveVars, findVars>>

\* The widget sends SCN_INDICATORCLICK for a mouse press on a character that
\* carries an indicator, with the modifier keys held.
IndicatorClick ==
  /\ indicator # {}
  /\ \E modifiers \in Modifiers : Notify(SCN_INDICATORCLICK, modifiers)

\* Any other notification the widget sends.
OtherNotification ==
  \E modifiers \in Modifiers : Notify(OtherCode, modifiers)


----------------------------------------------------------------------------
(* Saving and closing, texteditor.cpp 66-89, 211-222, 321-345, 426-499 *)

DEFAULT_TEXT_FILE_ENCODING == "UTF-8"

\* Encodings QTextCodec::codecForName knows, and one it does not.
KnownEncodings == {"UTF-8", "windows-1250"}
UnknownEncoding == "no-such-codec"

\* File names as the dialogs and callers give them (the empty string: none).
FilePaths == {"d/a.txt", "d/b.txt"}

\* QDir::toNativeSeparators: "/" becomes "\" on a Windows build and stays
\* elsewhere.
toNativeSeparators(path, windows) ==
  IF ~windows THEN path
  ELSE CASE path = "d/a.txt" -> "d\\a.txt"
         [] path = "d/b.txt" -> "d\\b.txt"
         [] OTHER -> path

\* The editor's fields the save and close code reads and writes.
Editor == [filePath |-> m_filePath, encoding |-> m_encoding, modified |-> modified]

\* What a call leaves: the editor, *ok, and the savedToFile signals emitted.
Outcome(ed, ok, signals) == [ed |-> ed, ok |-> ok, emitted |-> signals]

\* TextEditor::saveToFile, lines 321-345.  canOpen: QFile::open succeeds.
saveToFile(ed, file_path, encoding, canOpen, windows) ==
  LET enc == IF encoding # "" THEN encoding ELSE ed.encoding
      ed1 == [ed EXCEPT !.encoding = enc]
      native == toNativeSeparators(file_path, windows)
  IN  IF ~canOpen
      THEN Outcome(ed1, FALSE, <<>>)
      ELSE Outcome([ed1 EXCEPT !.filePath = native, !.modified = FALSE],
                   TRUE, <<native>>)

\* TextEditor::saveAs, lines 437-461.  chosen: what the file dialog returns,
\* empty when the user cancels it.
saveAs(ed, encoding, chosen, canOpen, windows) ==
  IF chosen # ""
  THEN saveToFile(ed, chosen, encoding, canOpen, windows)
  ELSE Outcome(ed, FALSE, <<>>)

\* TextEditor::save, lines 426-435.
save(ed, chosen, canOpen, windows) ==
  IF ed.filePath = ""
  THEN saveAs(ed, "", chosen, canOpen, windows)
  ELSE saveToFile(ed, ed.filePath, "", canOpen, windows)

\* The buttons QMessageBox::question can answer with; dismissing the box
\* answers Cancel, and NoButton stands for any answer the switch does not
\* name.
Responses == {"Save", "Discard", "Cancel", "NoButton"}

\* closeEditor with the result of save dropped: Save always reports ok.
closeEditor_IgnoresSaveResult(ed, response, chosen, canOpen, windows) ==
  IF ed.modified
  THEN CASE response = "Save" ->
              [save(ed, chosen, canOpen, windows) EXCEPT !.ok = TRUE]
         [] response = "Discard" -> Outcome(ed, TRUE, <<>>)
         [] response = "Cancel" -> Outcome(ed, FALSE, <<>>)
         [] OTHER -> Outcome(ed, FALSE, <<>>)
  ELSE Outcome(ed, TRUE, <<>>)

\* TextEditor::closeEditor, lines 463-499.
closeEditor(ed, response, chosen, canOpen, windows) ==
  IF ed.modified
  THEN CASE response = "Save" -> save(ed, chosen, canOpen, windows)
         [] response = "Discard" -> Outcome(ed, TRUE, <<>>)
         [] response = "Cancel" -> Outcome(ed, FALSE, <<>>)
         [] OTHER -> Outcome(ed, FALSE, <<>>)
  ELSE Outcome(ed, TRUE, <<>>)

\* The inputs of the last call and the editor before it.
Call(op, file_path, encoding, response, chosen, canOpen) ==
  [op |-> op, file_path |-> file_path, encoding |-> encoding,
   response |-> response, chosen |-> chosen, canOpen |-> canOpen,
   before |-> Editor]

\* The editor takes the outcome of a call.
Take(out) ==
  /\ m_filePath' = out.ed.filePath
  /\ m_encoding' = out.ed.encoding
  /\ modified' = out.ed.modified
  /\ lastOk' = out.ok
  /\ emitted' = out.emitted

\* The user changes the text: the document leaves its save point.
Edit ==
  /\ ~closed
  /\ modified' = TRUE
  /\ lastCall' = Call("edit", "", "", "", "", FALSE)
  /\ lastOk' = FALSE
  /\ emitted' = <<>>
  /\ UNCHANGED <<m_filePath, m_encoding, closed, windowsBuild, hoverVars, findVars>>

\* TextEditor::loadFromFile, lines 66-89; emptyUndoBuffer sets the save point.
LoadFromFile ==
  /\ ~closed
  /\ \E path \in FilePaths, encoding \in KnownEncodings \cup {UnknownEncoding} :
       /\ m_filePath' = toNativeSeparators(path, windowsBuild)
       /\ m_encoding' = IF encoding \in KnownEncodings
                        THEN encoding
                        ELSE DEFAULT_TEXT_FILE_ENCODING
       /\ modified' = FALSE
       /\ lastCall' = Call("loadFromFile", path, encoding, "", "", TRUE)
       /\ lastOk' = TRUE
       /\ emitted' = <<>>
  /\ UNCHANGED <<closed, windowsBuild, hoverVars, findVars>>

SaveToFile ==
  /\ ~closed
  /\ \E file_path \in FilePaths, encoding \in KnownEncodings \cup {""},
        canOpen \in BOOLEAN :
       /\ Take(saveToFile(Editor, file_path, encoding, canOpen, windowsBuild))
       /\ lastCall' = Call("saveToFile", file_path, encoding, "", "", canOpen)
  /\ UNCHANGED <<closed, windowsBuild, hoverVars, findVars>>

Save ==
  /\ ~closed
  /\ \E chosen \in FilePaths \cup {""}, canOpen \in BOOLEAN :
       /\ Take(save(Editor, chosen, canOpen, windowsBuild))
       /\ lastCall' = Call("save", "", "", "", chosen, canOpen)
  /\ UNCHANGED <<closed, windowsBuild, hoverVars, findVars>>

SaveAs ==
  /\ ~closed
  /\ \E encoding \in KnownEncodings \cup {""}, chosen \in FilePaths \cup {""},
        canOpen \in BOOLEAN :
       /\ Take(saveAs(Editor, encoding, chosen, canOpen, windowsBuild))
       /\ lastCall' = Call("saveAs", "", encoding, "", chosen, canOpen)
  /\ UNCHANGED <<closed, windowsBuild, hoverVars, findVars>>

\* TextEditor::closeEvent, lines 211-222: the event is accepted when
\* closeEditor reports ok and ignored otherwise.
CloseEvent ==
  /\ ~closed
  /\ \E response \in Responses, chosen \in FilePaths \cup {""},
        canOpen \in BOOLEAN :
       LET out == closeEditor(Editor, response, chosen, canOpen, windowsBuild)
       IN  /\ Take(out)
           /\ closed' = out.ok
           /\ lastCall' = Call("closeEvent", "", "", response, chosen, canOpen)
  /\ UNCHANGED <<windowsBuild, hoverVars, findVars>>

----------------------------------------------------------------------------
(* FindResultsModel, findresultsmodel.h 28-33 *)

\* Editor handles, and the most matches one addResults call passes.
NumEditors == 3
MaxResults == 2
\* The most match leaves the tree holds: addResults is cut off there.
MaxLeaves == 4

Editors == 1 .. NumEditors
Matches == { <<1, 2>>, <<3, 4>> }
ResultLists == UNION { [1..n -> Matches] : n \in 0 .. MaxResults }

RECURSIVE LeafCount(_)
LeafCount(root) ==
  IF root = <<>> THEN 0 ELSE Len(Head(root).results) + LeafCount(Tail(root))

\* The rows of the root whose group belongs to editor.
GroupRows(root, editor) == { i \in 1 .. Len(root) : root[i].editor = editor }

\* addResults without the lookup of the editor's group: every call appends a
\* group of its own.
addResults_AlwaysNewGroup(root, editor, results) ==
  Append(root, [editor |-> editor, results |-> results])

\* FindResultsModel::addResults: the editor's group is created at the end of
\* the root's children when there is none, and one leaf per match is appended
\* to it, in the given order.
addResults(root, editor, results) ==
  IF GroupRows(root, editor) = {}
  THEN Append(root, [editor |-> editor, results |-> results])
  ELSE LET row == CHOOSE i \in GroupRows(root, editor) : TRUE
       IN  [root EXCEPT ![row].results = @ \o results]

AddResults ==
  \E editor \in Editors, results \in ResultLists :
    /\ LeafCount(m_rootItem) + Len(results) <= MaxLeaves
    /\ m_rootItem' = addResults(m_rootItem, editor, results)
    /\ passed' = passed \cup {editor}
    /\ given' = [given EXCEPT ![editor] = @ \o results]
    /\ UNCHANGED <<hoverVars, saveVars>>

\* FindResultsModel::clear: only the root remains.
Clear ==
  /\ m_rootItem' = <<>>
  /\ passed' = {}
  /\ given' = [e \in Editors |-> <<>>]
  /\ UNCHANGED <<hoverVars, saveVars>>

----------------------------------------------------------------------------
(* Specifications *)

HoverStart ==
  /\ m_indicatorStart = -1
  /\ m_indicatorStop = -1
  /\ indicator = {}
  /\ lastEvent = [kind |-> "none", code |-> 0, modifiers |-> 0]
  /\ lastPos = INVALID_POSITION
  /\ stateBefore = <<-1, -1, {}>>
  /\ clearCalls = 0
  /\ charAtArgs = {}
  /\ searchCalls = 0
  /\ browserCalls = <<>>

\* TextEditor::TextEditor, lines 31-54: a new document, no file, the default
\* encoding.
SaveStart ==
  /\ m_filePath = ""
  /\ m_encoding = DEFAULT_TEXT_FILE_ENCODING
  /\ modified = FALSE
  /\ closed = FALSE
  /\ lastCall = [op |-> "none", file_path |-> "", encoding |-> "",
                 response |-> "", chosen |-> "", canOpen |-> FALSE,
                 before |-> [filePath |-> "", modified |-> FALSE,
                             encoding |-> DEFAULT_TEXT_FILE_ENCODING]]
  /\ lastOk = FALSE
  /\ emitted = <<>>

FindStart ==
  /\ m_rootItem = <<>>
  /\ passed = {}
  /\ given = [e \in Editors |-> <<>>]

Init ==
  /\ text \in Documents
  /\ windowsBuild = FALSE
  /\ HoverStart /\ SaveStart /\ FindStart

Next ==
  \/ MouseMoveOverText
  \/ MouseMoveOffText
  \/ IndicatorClick
  \/ OtherNotification

Spec == Init /\ [][Next]_vars

InitSave ==
  /\ text = Words[5]
  /\ windowsBuild \in BOOLEAN
  /\ HoverStart /\ SaveStart /\ FindStart

NextSave ==
  \/ Edit
  \/ LoadFromFile
  \/ SaveToFile
  \/ Save
  \/ SaveAs
  \/ CloseEvent

SpecSave == InitSave /\ [][NextSave]_vars

InitFind ==
  /\ text = Words[5]
  /\ windowsBuild = FALSE
  /\ HoverStart /\ SaveStart /\ FindStart

NextFind ==
  \/ AddResults
  \/ Clear

SpecFind == InitFind /\ [][NextFind]_vars


----------------------------------------------------------------------------
(* Properties of the hover detector (under Spec) *)

\* The maximal run of URL-safe characters around offset p, [RunStart(p),
\* RunEnd(p)), stated from the text alone; p is on a URL-safe character.
RunStart(p) ==
  CHOOSE a \in 0 .. p :
    /\ \A k \in a .. p : text[k + 1] \in UrlValidChars
    /\ a = 0 \/ text[a] \notin UrlValidChars

RunEnd(p) ==
  CHOOSE b \in (p + 1) .. length :
    /\ \A k \in p .. (b - 1) : text[k + 1] \in UrlValidChars
    /\ b = length \/ text[b + 1] \notin UrlValidChars

RunText(p) == SubSeq(text, RunStart(p) + 1, RunEnd(p))

\* The last handler was a mouse move over a URL-safe character.
MovedOverWord ==
  /\ lastEvent.kind = "move"
  /\ lastPos >= 0
  /\ text[lastPos + 1] \in UrlValidChars

\* [m_indicatorStart, m_indicatorStop) is a non-empty span whose text is,
\* as a whole, a match of the URL pattern, and it carries the indicator.
UrlSpanHighlighted ==
  /\ 0 <= m_indicatorStart
  /\ m_indicatorStart < m_indicatorStop
  /\ m_indicatorStop <= length
  /\ LET m == match(textRange(m_indicatorStart, m_indicatorStop))
     IN  /\ m.hasMatch
         /\ m.capturedStart = 0
         /\ m.capturedEnd = m_indicatorStop - m_indicatorStart
  /\ (m_indicatorStart .. (m_indicatorStop - 1)) \subseteq indicator

\* C1: after a mouse move at an offset whose run of URL-safe characters
\* contains a match of the URL pattern, m_indicatorStart and m_indicatorStop
\* are the match's document offsets and the indicator covers exactly
\* [m_indicatorStart, m_indicatorStop), whatever state earlier moves left.
C1_MatchBecomesSpan ==
  (MovedOverWord /\ match(RunText(lastPos)).hasMatch) =>
    LET m == match(RunText(lastPos))
    IN  /\ m_indicatorStart = RunStart(lastPos) + m.capturedStart
        /\ m_indicatorStop = RunStart(lastPos) + m.capturedEnd
        /\ indicator = m_indicatorStart .. (m_indicatorStop - 1)

\* C2: a mouse move at an offset inside the active span (m_indicatorStart <=
\* p < m_indicatorStop before the event) clears nothing, scans nothing,
\* searches nothing and leaves the span and the indicator as they were.
C2_MoveInsideSpanDoesNothing ==
  ( /\ lastEvent.kind = "move"
    /\ stateBefore[1] <= lastPos
    /\ lastPos < stateBefore[2] ) =>
      /\ clearCalls = 0
      /\ charAtArgs = {}
      /\ searchCalls = 0
      /\ <<m_indicatorStart, m_indicatorStop, indicator>> = stateBefore

\* C3: every offset the expansion loops pass to charAt is inside the
\* document.
C3_CharAtInsideDocument == charAtArgs \subseteq 0 .. (length - 1)

\* C4: an indicator-click notification opens the browser exactly once, with
\* the text of [m_indicatorStart, m_indicatorStop), when exactly Ctrl is held
\* and a URL span is highlighted, and makes no browser call otherwise.
C4_ClickOpensHighlightedUrl ==
  (lastEvent.kind = "notify" /\ lastEvent.code = SCN_INDICATORCLICK) =>
    IF lastEvent.modifiers = SCMOD_CTRL /\ UrlSpanHighlighted
    THEN browserCalls = << SubSeq(text, m_indicatorStart + 1, m_indicatorStop) >>
    ELSE browserCalls = <<>>

\* C5: after a mouse move over a URL-safe character that rescans and finds
\* no match in the run around it, m_indicatorStart and m_indicatorStop are
\* the run's bounds and no offset carries the indicator.
C5_WordWithoutUrl ==
  (MovedOverWord /\ searchCalls = 1 /\ ~match(RunText(lastPos)).hasMatch) =>
    /\ m_indicatorStart = RunStart(lastPos)
    /\ m_indicatorStop = RunEnd(lastPos)
    /\ indicator = {}

\* C6: after a mouse move that resolves to no character, no offset carries
\* the indicator, the state is the sentinel, and nothing was scanned or
\* searched.
C6_OffTextClears ==
  (lastEvent.kind = "move" /\ lastPos = INVALID_POSITION) =>
    /\ indicator = {}
    /\ m_indicatorStart = -1
    /\ m_indicatorStop = -1
    /\ charAtArgs = {}
    /\ searchCalls = 0

\* C8: the hover state is the sentinel or a half-open span inside the
\* document: 0 <= m_indicatorStart <= m_indicatorStop <= length.
C8_SpanWellFormed ==
  \/ m_indicatorStart = -1 /\ m_indicatorStop = -1
  \/ /\ 0 <= m_indicatorStart
     /\ m_indicatorStart <= m_indicatorStop
     /\ m_indicatorStop <= length

----------------------------------------------------------------------------
(* Properties of saving and closing (under SpecSave) *)

\* The last call wrote the file: savedToFile was emitted and the document is
\* at its save point.
Saved == emitted # <<>> /\ ~modified

C10_FailedSaveChangesNothing ==
  (lastCall.op = "saveToFile" /\ ~lastCall.canOpen) =>
    /\ ~lastOk
    /\ m_filePath = lastCall.before.filePath
    /\ m_encoding = lastCall.before.encoding
    /\ modified = lastCall.before.modified
    /\ emitted = <<>>

----------------------------------------------------------------------------
(* Properties of the find-results tree (under SpecFind) *)

\* C7: with no clear() in between, the root has one group per distinct
\* editor passed to addResults, and each editor's single group holds the
\* matches passed for it, in call order.
C7_OneGroupPerEditor ==
  /\ Len(m_rootItem) = Cardinality(passed)
  /\ \A e \in passed :
       /\ Cardinality(GroupRows(m_rootItem, e)) = 1
       /\ \A i \in GroupRows(m_rootItem, e) : m_rootItem[i].results = given[e]

\* C7's case: several editors, and one of them was passed more matches than
\* one call holds, so it was passed at least twice.
C7_Witness ==
  /\ Cardinality(passed) >= 2
  /\ \E e \in passed : Len(given[e]) > MaxResults


====
